---- MODULE Spec2Model ----
(***************************************************************************)
(* Model of src/app.py: one Streamlit session of the scoring dashboard.    *)
(*                                                                         *)
(* A script run is one execution of main().  It starts at a user           *)
(* interaction (a widget change or a button press) and is split only where *)
(* main() waits for the remote agent: at invoke_agent.  Everything a run    *)
(* renders is rebuilt from nothing by that run.                            *)
(*                                                                         *)
(* Units (fixed point, so that conversions are visible):                   *)
(*   money                dollars                                          *)
(*   edad                 years                                            *)
(*   estabilidad_laboral  tenths of a year                                 *)
(*   ratio_deuda_ingreso  hundredths                                       *)
(*   tasa slider          tenths of a percent (the slider's step)          *)
(*   tasa_mora_actual     1e-4 (2000 = 0.20)                               *)
(*   score_ml             1e-4 in a response, 1e-3 once formatted ":.3f"   *)
(***************************************************************************)
EXTENDS Integers, Sequences, FiniteSets

VARIABLES
    w,            \* input widgets of sidebar and tab1 (lines 44-46, 55-59)
    n_clientes,   \* the simulation slider (line 114)
    pc,           \* "idle" | "eval" (waiting at line 67) | "sim" (waiting at line 135)
    pressed,      \* button that started the current or last run: "none" | "evaluar" | "simular"
    tabs,         \* tabs whose body the run has rendered completely, in order
    shown,        \* widgets the run rendered below the Evaluar button (lines 69-86)
    reply,        \* how the last call to the remote agent ended
    sent,         \* payloads the run handed to invoke_agent, in order
    inflight,     \* indexes (into sent) of calls not yet returned
    rng,          \* numpy's global generator: [seed, pos]
    i,            \* loop index of line 121
    resultados,   \* list of rows, line 118
    warnings,     \* st.warning messages of the run, line 144
    progress,     \* value of the progress bar, lines 119 and 146
    agg,          \* widgets of the aggregate, lines 149-163
    escaped,      \* an exception left main() in this run
    cartera,      \* what tab2 shows, lines 92-107
    lastSim       \* applicants of the last simulation run that ended (history)

vars == <<w, n_clientes, pc, pressed, tabs, shown, reply, sent, inflight,
          rng, i, resultados, warnings, progress, agg, escaped, cartera, lastSim>>

(***************************************************************************)
(* JSON values and widget values                                           *)
(***************************************************************************)
Val(t, n, s) == [t |-> t, n |-> n, s |-> s]
Absent == Val("absent", 0, "")
Num(n) == Val("num", n, "")
Str(s) == Val("str", 0, s)
Fmt3(n) == Val("fmt3", n, "")
Fmt1(n) == Val("fmt1", n, "")

\* a rendered widget
Widget(k, v, c) == [w |-> k, v |-> v, color |-> c]

\* the keys of the response's decision object
DecisionKeys == {"decision", "score_final", "justificacion", "recomendaciones"}

NoFields == [k \in DecisionKeys |-> Absent]

\* d is a decision object read from JSON (a dict when d.t = "dict")
Has(d, k) == d.t = "dict" /\ d.f[k] # Absent

NoDecision == [t |-> "absent", f |-> NoFields]
TextDecision == [t |-> "str", f |-> NoFields]
DictDecision(f) == [t |-> "dict", f |-> f]

\* status: "raise" (invoke_agent_runtime raised), "nonjson" (json.loads raised), "json"
Response(st, sc, d) == [status |-> st, score_ml |-> sc, decision |-> d]
NoResponse == Response("none", Absent, NoDecision)

(***************************************************************************)
(* Input widgets                                                           *)
(***************************************************************************)
EdadMin == 18
EdadMax == 80
EdadDefault == 35
RatioMax == 100
RatioDefault == 30
TasaSliderMax == 200
TasaSliderDefault == 35
CapitalDefault == 1000000
ObjetivoDefault == 500000
IngresosDefault == 50000
EstabilidadDefault == 30
MinClientes == 10
MaxClientes == 100
DefaultClientes == 20

\* largest n_clientes a simulation is run with here
MaxSimClientes == 11

\* stands for "no max_value" of a number_input
NoMax == 1000000000

Clamp(v, lo, hi) == IF v < lo THEN lo ELSE IF v > hi THEN hi ELSE v

\* st.number_input / st.slider: the value a widget holds lies in [min_value, max_value]
NumberInput(v, lo, hi) == Clamp(v, lo, hi)

\* what the user may try to enter in the seven input widgets at once
UserEntries ==
    { [capital |-> -500, tasa_slider |-> -1, objetivo |-> -1, edad |-> 17,
       ingresos |-> -100, estabilidad |-> -5, ratio |-> -1],
      [capital |-> CapitalDefault, tasa_slider |-> TasaSliderDefault,
       objetivo |-> ObjetivoDefault, edad |-> EdadDefault,
       ingresos |-> IngresosDefault, estabilidad |-> EstabilidadDefault,
       ratio |-> RatioDefault],
      [capital |-> 25000000, tasa_slider |-> 201, objetivo |-> 9000000, edad |-> 81,
       ingresos |-> 750000, estabilidad |-> 455, ratio |-> 101] }

\* the widgets of lines 44-46 and 55-59 after the user entered e
Widgets(e) ==
    [capital     |-> NumberInput(e.capital, 0, NoMax),
     tasa_slider |-> NumberInput(e.tasa_slider, 0, TasaSliderMax),
     objetivo    |-> NumberInput(e.objetivo, 0, NoMax),
     edad        |-> NumberInput(e.edad, EdadMin, EdadMax),
     ingresos    |-> NumberInput(e.ingresos, 0, NoMax),
     estabilidad |-> NumberInput(e.estabilidad, 0, NoMax),
     ratio       |-> NumberInput(e.ratio, 0, RatioMax)]

DefaultWidgets ==
    [capital |-> CapitalDefault, tasa_slider |-> TasaSliderDefault,
     objetivo |-> ObjetivoDefault, edad |-> EdadDefault,
     ingresos |-> IngresosDefault, estabilidad |-> EstabilidadDefault,
     ratio |-> RatioDefault]

\* positions of the simulation slider the user moves it to
SliderStops == (MinClientes..MaxSimClientes) \cup {DefaultClientes, MaxClientes}

TasaMoraAsPercent(sl) == sl * 1000

\* line 45: slider percent / 100.  The slider holds tenths of a percent, that is
\* sl * 1000 in units of 1e-4; the quotient is the fraction in units of 1e-4.
TasaMora(sl) == (sl * 1000) \div 100

\* lines 63 and 128-132
SaludCartera(ww) ==
    [capital_disponible |-> ww.capital,
     tasa_mora_actual |-> TasaMora(ww.tasa_slider),
     objetivo_mensual_desembolso |-> ww.objetivo]

\* line 62
ClienteForm(ww) ==
    [edad |-> ww.edad, ingresos |-> ww.ingresos,
     estabilidad_laboral |-> ww.estabilidad, ratio_deuda_ingreso |-> ww.ratio]

\* line 33: the JSON object invoke_agent sends
Payload(cliente, salud) == [cliente |-> cliente, salud_cartera |-> salud]

(***************************************************************************)
(* Responses of the remote agent                                           *)
(***************************************************************************)
ScoreValues == {Absent, Num(0), Num(7236), Num(10000), Str("alto")}
LabelValues == {Absent, Str("APROBADO"), Str("RECHAZADO"), Str("aprobado"), Str("")}
ScoreFinalValues == {Absent, Num(650), Str("B+")}
JustificacionValues == {Absent, Str("ingresos estables")}
RecomendacionesValues == {Absent, Str("reducir deuda")}

DecisionObjects ==
    { DictDecision([decision |-> l, score_final |-> sf,
                    justificacion |-> j, recomendaciones |-> r]) :
        l \in LabelValues, sf \in ScoreFinalValues,
        j \in JustificacionValues, r \in RecomendacionesValues }

\* every way a call can end
Responses ==
    { Response("raise", Absent, NoDecision), Response("nonjson", Absent, NoDecision) }
    \cup { Response("json", sc, d) :
             sc \in ScoreValues, d \in {NoDecision, TextDecision} \cup DecisionObjects }

(***************************************************************************)
(* Exceptions                                                              *)
(***************************************************************************)
\* the classes the modelled statements raise; each derives from Exception
ExceptionClasses == {"ClientError", "JSONDecodeError", "KeyError", "TypeError", "ValueError"}

\* a handler that names only the remote call's own error class
CatchesCallErrorsOnly(exc) == exc = "ClientError"

\* lines 85 and 143: "except Exception"
ExceptCatches(exc) == exc \in ExceptionClasses

\* lines 34-36: how invoke_agent ends on response r ("none": it returns the parsed JSON)
InvokeAgentRaises(r) ==
    IF r.status = "raise" THEN "ClientError"
    ELSE IF r.status = "nonjson" THEN "JSONDecodeError"
    ELSE "none"

\* resultado['score_ml']
ScoreLookupRaises(r) == IF r.score_ml = Absent THEN "KeyError" ELSE "none"

\* resultado["decision"]["decision"]
LabelLookupRaises(r) ==
    IF r.decision.t = "absent" THEN "KeyError"
    ELSE IF r.decision.t # "dict" THEN "TypeError"
    ELSE IF ~Has(r.decision, "decision") THEN "KeyError"
    ELSE "none"

(***************************************************************************)
(* Individual evaluation, lines 61-86                                      *)
(***************************************************************************)
Format3Truncating(n) == n \div 10

\* ":.3f" of a number held in units of 1e-4 (no modelled value lies on a tie)
Format3(n) == (n + 5) \div 10

ColorIgnoringCase(label) ==
    IF label \in {Str("APROBADO"), Str("aprobado")} THEN "green" ELSE "red"

\* line 74
Color(label) == IF label = Str("APROBADO") THEN "green" ELSE "red"

ScoreFinalUnguarded(d) == d.f["score_final"]

\* line 77: dict.get with a default
ScoreFinalShown(d) == IF Has(d, "score_final") THEN d.f["score_final"] ELSE Str("N/A")

Rendering(ws, exc) == [widgets |-> ws, exc |-> exc]

\* every field is read before the first widget is emitted
RenderResultAtomic(r) ==
    IF ScoreLookupRaises(r) # "none" THEN Rendering(<<>>, ScoreLookupRaises(r))
    ELSE IF r.score_ml.t # "num" THEN Rendering(<<>>, "ValueError")
    ELSE IF LabelLookupRaises(r) # "none" THEN Rendering(<<>>, LabelLookupRaises(r))
    ELSE IF ~Has(r.decision, "justificacion") THEN Rendering(<<>>, "KeyError")
    ELSE
      LET d == r.decision
          m == <<Widget("Score ML", Fmt3(Format3(r.score_ml.n)), ""),
                 Widget("decision", d.f["decision"], Color(d.f["decision"])),
                 Widget("Score Final", ScoreFinalShown(d), ""),
                 Widget("subheader", Str("Justificacion"), ""),
                 Widget("justificacion", d.f["justificacion"], "")>>
      IN IF Has(d, "recomendaciones")
         THEN Rendering(m \o <<Widget("recomendaciones", d.f["recomendaciones"], "")>>, "none")
         ELSE Rendering(m, "none")

\* lines 71-83 once invoke_agent has returned r: the widgets emitted, in order,
\* and the exception that ended the block ("none" when it ran to its end)
RenderResult(r) ==
    IF ScoreLookupRaises(r) # "none" THEN Rendering(<<>>, ScoreLookupRaises(r))
    ELSE IF r.score_ml.t # "num" THEN Rendering(<<>>, "ValueError")
    ELSE
      LET m1 == <<Widget("Score ML", Fmt3(Format3(r.score_ml.n)), "")>> IN
      IF LabelLookupRaises(r) # "none" THEN Rendering(m1, LabelLookupRaises(r))
      ELSE
        LET d  == r.decision
            m3 == m1 \o <<Widget("decision", d.f["decision"], Color(d.f["decision"])),
                          Widget("Score Final", ScoreFinalShown(d), ""),
                          Widget("subheader", Str("Justificacion"), "")>>
        IN
        IF ~Has(d, "justificacion") THEN Rendering(m3, "KeyError")
        ELSE
          LET m4 == m3 \o <<Widget("justificacion", d.f["justificacion"], "")>> IN
          IF Has(d, "recomendaciones")
          THEN Rendering(m4 \o <<Widget("recomendaciones", d.f["recomendaciones"], "")>>, "none")
          ELSE Rendering(m4, "none")

\* the remote call made before the try block is entered
EvalTryCallOutside(r) ==
    IF InvokeAgentRaises(r) # "none" THEN Rendering(<<>>, InvokeAgentRaises(r))
    ELSE IF RenderResult(r).exc # "none"
    THEN Rendering(RenderResult(r).widgets \o <<Widget("error", Str(RenderResult(r).exc), "")>>,
                   "none")
    ELSE RenderResult(r)

\* lines 65-86: the try block and its handler
EvalTry(r) ==
    LET body == IF InvokeAgentRaises(r) # "none"
                THEN Rendering(<<>>, InvokeAgentRaises(r))
                ELSE RenderResult(r)
    IN
    IF body.exc # "none" /\ ExceptCatches(body.exc)
    THEN Rendering(body.widgets \o <<Widget("error", Str(body.exc), "")>>, "none")
    ELSE body

(***************************************************************************)
(* Portfolio tab, lines 88-107                                             *)
(***************************************************************************)
\* tasa in tenths of a percent (":.1%"), the gauge in units of 1e-4 percent
PortfolioTab(ww) ==
    [capital |-> ww.capital,
     tasa |-> Fmt1(TasaMora(ww.tasa_slider) \div 10),
     objetivo |-> ww.objetivo,
     gauge |-> TasaMora(ww.tasa_slider) * 100]

AllTabs == <<"tab1", "tab2", "tab3">>

(***************************************************************************)
(* numpy's global generator                                                *)
(***************************************************************************)
Seed == 42

\* seeds the generator may hold before the first np.random.seed (OS entropy)
EntropySeeds == {7, 13}

\* what the distributions return; the generator picks the entry
NormalSamples == <<9, 18, 29, 41, 70, 77>>
LogNormalSamples == <<8100, 22026, 61000>>
UniformSamples == <<0, 37, 99>>
BetaSamples == <<3, 28, 71>>

\* The generator's output is a fixed function of the seed and of the number of
\* draws since seeding.  This function stands for the Mersenne Twister's.
Raw(g) == ((g.seed + 3) * (g.pos + 5) * (g.pos + 11) + 7 * g.pos * g.pos * g.pos) % 101

Draw(samples, g) == samples[(Raw(g) % Len(samples)) + 1]

Advance(g, k) == [seed |-> g.seed, pos |-> g.pos + k]

KeepState(g, s) == g

\* line 117: np.random.seed(s)
Reseed(g, s) == [seed |-> s, pos |-> 0]

ClipLo == 18
ClipHi == 70

ClipUpperOnly(v, lo, hi) == IF v > hi THEN hi ELSE v

\* np.clip
Clip(v, lo, hi) == IF v < lo THEN lo ELSE IF v > hi THEN hi ELSE v

\* lines 122-127: four draws, in the order the dict literal evaluates them
GenCliente(g) ==
    [edad |-> Clip(Draw(NormalSamples, g), ClipLo, ClipHi),
     ingresos |-> Draw(LogNormalSamples, Advance(g, 1)),
     estabilidad_laboral |-> Draw(UniformSamples, Advance(g, 2)),
     ratio_deuda_ingreso |-> Draw(BetaSamples, Advance(g, 3))]

(***************************************************************************)
(* Simulation, lines 116-163                                               *)
(***************************************************************************)
\* What the remote agent answers to payload p when the call goes through.  The
\* agent is opaque; this one scores by debt ratio, rejects everything once the
\* portfolio's default rate is in the gauge's red band, and words the score
\* instead of computing it for applicants without job history.
AgentReply(p) ==
    LET c == p.cliente
        label == IF c.ratio_deuda_ingreso <= 40 /\ p.salud_cartera.tasa_mora_actual < 700
                 THEN Str("APROBADO") ELSE Str("RECHAZADO")
        score == IF c.estabilidad_laboral = 0 THEN Str("alto")
                 ELSE Num(10000 - 100 * c.ratio_deuda_ingreso)
    IN Response("json", score,
                DictDecision([decision |-> label, score_final |-> Num(650),
                              justificacion |-> Str("ingresos estables"),
                              recomendaciones |-> Absent]))

\* the ways a call of the simulation fails
SimFailures ==
    { Response("raise", Absent, NoDecision),
      Response("nonjson", Absent, NoDecision),
      Response("json", Absent, NoDecision),
      Response("json", Num(7236), NoDecision),
      Response("json", Num(7236), TextDecision),
      Response("json", Num(7236),
               DictDecision([NoFields EXCEPT !["justificacion"] = Str("ingresos estables")])) }

\* most stretches of consecutive failing calls the remote agent has in one run
MaxOutages == 1

\* stretches of consecutive client numbers in the warnings ws
Outages(ws) == Cardinality({k \in 1..Len(ws) : k = 1 \/ ws[k] # ws[k - 1] + 1})

\* how call idx, which sent payload p, may end after the warnings ws
SimReplies(p, ws, idx) ==
    {AgentReply(p)}
    \cup (IF Outages(Append(ws, idx + 1)) <= MaxOutages THEN SimFailures ELSE {})

\* lines 135-142: the exception the try block ends with ("none": the row is appended)
SimTryRaises(r) ==
    IF InvokeAgentRaises(r) # "none" THEN InvokeAgentRaises(r)
    ELSE IF ScoreLookupRaises(r) # "none" THEN ScoreLookupRaises(r)
    ELSE LabelLookupRaises(r)

\* lines 136-142
Row(idx, c, r) ==
    [id |-> idx + 1, edad |-> c.edad, ingresos |-> c.ingresos,
     score_ml |-> r.score_ml, decision |-> r.decision.f["decision"]]

RetryFailed(idx, exc) == IF exc = "none" THEN idx + 1 ELSE idx

\* line 121: "for i in range(n_clientes)" moves on whatever item idx ended with
LoopNext(idx, exc) == idx + 1

\* line 146, in thousandths
Progress(idx, n) == ((idx + 1) * 1000) \div n

RECURSIVE CountAprobados(_)
\* line 152: rows whose decision equals "APROBADO"
CountAprobados(rows) ==
    IF rows = <<>> THEN 0
    ELSE (IF Head(rows).decision = Str("APROBADO") THEN 1 ELSE 0) + CountAprobados(Tail(rows))

RECURSIVE SumScores(_)
SumScores(rows) ==
    IF rows = <<>> THEN 0 ELSE Head(rows).score_ml.n + SumScores(Tail(rows))

Metric(k, v, delta) == [w |-> k, v |-> v, delta |-> delta]

\* line 154: aprobados/len(df)*100 as ":.1f", in tenths of a percent (a quotient
\* halfway between two tenths needs len(df) >= 16; it is rounded up here)
PctAprobados(a, n) == (2 * a * 1000 + n) \div (2 * n)

\* line 156: the mean as ":.3f", in thousandths (halves rounded up)
MeanScore(rows) == (2 * SumScores(rows) + 10 * Len(rows)) \div (20 * Len(rows))

\* line 156: the mean of a column that holds a text raises
MeanRaises(rows) ==
    IF \E k \in 1..Len(rows) : rows[k].score_ml.t # "num" THEN "TypeError" ELSE "none"

\* line 148: "if resultados"
AggregateShown(rows) == rows # <<>>

\* lines 149-163: the widgets rendered and the exception that ended them
Aggregate(rows) ==
    IF ~AggregateShown(rows) THEN Rendering(<<>>, "none")
    ELSE
      LET a  == CountAprobados(rows)
          m1 == <<Metric("Aprobados", Num(a), Fmt1(PctAprobados(a, Len(rows))))>>
      IN
      IF MeanRaises(rows) # "none" THEN Rendering(m1, MeanRaises(rows))
      ELSE Rendering(m1 \o <<Metric("Score Promedio", Fmt3(MeanScore(rows)), Absent),
                             Metric("Total Evaluados", Num(Len(rows)), Absent),
                             Metric("histogram", Num(Len(rows)), Absent),
                             Metric("dataframe", Num(Len(rows)), Absent)>>, "none")

(***************************************************************************)
(* The session                                                             *)
(***************************************************************************)
NoPortfolio == [capital |-> -1, tasa |-> Absent, objetivo |-> -1, gauge |-> -1]

Clientes(ps) == [k \in 1..Len(ps) |-> ps[k].cliente]

\* the page as first loaded: main() has run once, no button pressed
Init ==
    /\ w = DefaultWidgets
    /\ n_clientes = DefaultClientes
    /\ pc = "idle"
    /\ pressed = "none"
    /\ tabs = AllTabs
    /\ shown = <<>>
    /\ reply = NoResponse
    /\ sent = <<>>
    /\ inflight = {}
    /\ rng \in {[seed |-> s, pos |-> 0] : s \in EntropySeeds}
    /\ i = 0
    /\ resultados = <<>>
    /\ warnings = <<>>
    /\ progress = 0
    /\ agg = <<>>
    /\ escaped = FALSE
    /\ cartera = PortfolioTab(DefaultWidgets)
    /\ lastSim = <<>>

\* a run of main() in which neither button is pressed (lines 39-116)
PlainRun(ww) ==
    /\ pc' = "idle"
    /\ pressed' = "none"
    /\ tabs' = AllTabs
    /\ shown' = <<>>
    /\ reply' = NoResponse
    /\ sent' = <<>>
    /\ inflight' = {}
    /\ i' = 0
    /\ resultados' = <<>>
    /\ warnings' = <<>>
    /\ progress' = 0
    /\ agg' = <<>>
    /\ escaped' = FALSE
    /\ cartera' = PortfolioTab(ww)
    /\ UNCHANGED <<rng, lastSim>>

\* the user changes the input widgets; Streamlit reruns main()
SetWidgets(e) ==
    /\ pc = "idle"
    /\ w' = Widgets(e)
    /\ UNCHANGED n_clientes
    /\ PlainRun(Widgets(e))

\* the user moves the slider of line 114; Streamlit reruns main()
SetNClientes(k) ==
    /\ pc = "idle"
    /\ n_clientes' = Clamp(k, MinClientes, MaxClientes)
    /\ UNCHANGED w
    /\ PlainRun(w)

\* lines 61-67: the button of tab1 is pressed; main() runs up to the remote call
PressEvaluar ==
    /\ pc = "idle"
    /\ pc' = "eval"
    /\ pressed' = "evaluar"
    /\ tabs' = <<>>
    /\ shown' = <<>>
    /\ reply' = NoResponse
    /\ sent' = <<Payload(ClienteForm(w), SaludCartera(w))>>
    /\ inflight' = {1}
    /\ i' = 0
    /\ resultados' = <<>>
    /\ warnings' = <<>>
    /\ progress' = 0
    /\ agg' = <<>>
    /\ escaped' = FALSE
    /\ cartera' = NoPortfolio
    /\ UNCHANGED <<w, n_clientes, rng, lastSim>>

\* lines 67-116: the call ends with r; the rest of main() runs
EvalReturn(r) ==
    /\ pc = "eval"
    /\ LET out == EvalTry(r) IN
         /\ shown' = out.widgets
         /\ escaped' = (out.exc # "none")
         /\ tabs' = IF out.exc # "none" THEN <<>> ELSE AllTabs
         /\ cartera' = IF out.exc # "none" THEN NoPortfolio ELSE PortfolioTab(w)
    /\ reply' = r
    /\ inflight' = {}
    /\ pc' = "idle"
    /\ UNCHANGED <<w, n_clientes, pressed, sent, rng, i, resultados, warnings,
                   progress, agg, lastSim>>

\* lines 39-135: the button of tab3 is pressed; main() runs up to the first call
\* (runs of more than MaxSimClientes clients are not explored)
PressSimular ==
    /\ pc = "idle"
    /\ n_clientes <= MaxSimClientes
    /\ pc' = "sim"
    /\ pressed' = "simular"
    /\ tabs' = <<"tab1", "tab2">>
    /\ shown' = <<>>
    /\ reply' = NoResponse
    /\ cartera' = PortfolioTab(w)
    /\ LET g == Reseed(rng, Seed) IN
         /\ sent' = <<Payload(GenCliente(g), SaludCartera(w))>>
         /\ rng' = Advance(g, 4)
    /\ inflight' = {1}
    /\ i' = 0
    /\ resultados' = <<>>
    /\ warnings' = <<>>
    /\ progress' = 0
    /\ agg' = <<>>
    /\ escaped' = FALSE
    /\ UNCHANGED <<w, n_clientes, lastSim>>

\* lines 135-146 and then 121-135 or 148-163: call i ends with r; main() runs up
\* to the next call, or to its end after the last one
SimHandle(r) ==
    /\ reply' = r
    /\ LET exc  == SimTryRaises(r)
           rows == IF exc = "none"
                   THEN Append(resultados, Row(i, sent[i + 1].cliente, r))
                   ELSE resultados
       IN
       IF exc # "none" /\ ~ExceptCatches(exc)
       THEN \* the exception leaves the loop and main()
            /\ escaped' = TRUE
            /\ pc' = "idle"
            /\ inflight' = {}
            /\ lastSim' = Clientes(sent)
            /\ UNCHANGED <<resultados, warnings, progress, agg, tabs, sent, rng, i>>
       ELSE /\ resultados' = rows
            /\ warnings' = IF exc = "none" THEN warnings ELSE Append(warnings, i + 1)
            /\ progress' = Progress(i, n_clientes)
            /\ IF LoopNext(i, exc) < n_clientes
               THEN /\ sent' = Append(sent, Payload(GenCliente(rng), SaludCartera(w)))
                    /\ rng' = Advance(rng, 4)
                    /\ inflight' = {Len(sent) + 1}
                    /\ i' = LoopNext(i, exc)
                    /\ UNCHANGED <<pc, agg, escaped, tabs, lastSim>>
               ELSE /\ LET out == Aggregate(rows) IN
                         /\ agg' = out.widgets
                         /\ escaped' = (out.exc # "none")
                         /\ tabs' = IF out.exc # "none" THEN tabs ELSE AllTabs
                    /\ pc' = "idle"
                    /\ inflight' = {}
                    /\ lastSim' = Clientes(sent)
                    /\ UNCHANGED <<sent, rng, i>>
    /\ UNCHANGED <<w, n_clientes, pressed, shown, cartera>>

SimReturn ==
    /\ pc = "sim"
    /\ \E r \in SimReplies(sent[i + 1], warnings, i) : SimHandle(r)

Next ==
    \/ \E e \in UserEntries : SetWidgets(e)
    \/ \E k \in SliderStops : SetNClientes(k)
    \/ PressEvaluar
    \/ \E r \in Responses : EvalReturn(r)
    \/ PressSimular
    \/ SimReturn

Spec == Init /\ [][Next]_vars

(***************************************************************************)
(* Properties                                                              *)
(***************************************************************************)
Names(ws) == [k \in 1..Len(ws) |-> ws[k].w]

Count(ws, name) == Cardinality({k \in 1..Len(ws) : ws[k].w = name})

IsPrefix(a, b) == Len(a) <= Len(b) /\ \A k \in 1..Len(a) : a[k] = b[k]

\* the individual evaluation has run to its end
EvalDone == pressed = "evaluar" /\ pc = "idle"

\* the simulation run is under way or over
InSim == pressed = "simular"

SimDone == pressed = "simular" /\ pc = "idle"

\* items of the loop fully handled so far
Handled == IF pc = "sim" THEN i ELSE i + 1

RowIds == {resultados[k].id : k \in 1..Len(resultados)}

WarningIds == {warnings[k] : k \in 1..Len(warnings)}

\* C1: in the simulation a failed call (exception, non-JSON answer, missing
\* 'score_ml', 'decision' or 'decision.decision') is reported as exactly one warning
\* naming client i+1 and adds no row, no exception leaves the loop, and the loop
\* goes on to every later item.
C1_BatchFailureIsOneWarning ==
    InSim =>
      /\ (reply # NoResponse /\ SimTryRaises(reply) # "none") =>
            /\ Cardinality({k \in 1..Len(warnings) : warnings[k] = Handled}) = 1
            /\ warnings[Len(warnings)] = Handled
            /\ Handled \notin RowIds
      /\ (reply # NoResponse /\ SimTryRaises(reply) = "none") =>
            /\ Handled \notin WarningIds
            /\ resultados[Len(resultados)].id = Handled
      /\ pc = "sim" => Len(sent) = Handled + 1 /\ inflight = {Handled + 1}
      /\ pc = "idle" => Len(sent) = n_clientes /\ Handled = n_clientes
      /\ Len(resultados) + Len(warnings) = Handled

\* a call failed on a missing key, was reported, and the next item is under way
C1_Witness ==
    /\ InSim /\ pc = "sim"
    /\ SimTryRaises(reply) = "KeyError"
    /\ warnings # <<>> /\ warnings[Len(warnings)] = i
    /\ resultados # <<>>
    /\ Len(sent) = i + 1

\* C3: one press of the simulation button issues exactly n_clientes calls
\* (10 <= n_clientes <= 100), one after another in index order with at most one
\* outstanding, each applicant once, a failed call never retried.
C3_SequentialCallsOncePerClient ==
    InSim =>
      /\ n_clientes \in MinClientes..MaxClientes
      /\ Cardinality(inflight) <= 1
      /\ Len(sent) <= n_clientes
      /\ pc = "sim" => inflight = {Len(sent)} /\ Len(sent) = i + 1
      /\ pc = "idle" => inflight = {} /\ Len(sent) = n_clientes
      \* every call but the outstanding one has ended in a row or a warning, once
      /\ RowIds \cap WarningIds = {}
      /\ RowIds \cup WarningIds = 1..(Len(sent) - Cardinality(inflight))
      /\ Len(resultados) = Cardinality(RowIds)
      /\ Len(warnings) = Cardinality(WarningIds)

\* a run of more than the minimum is over, with failures and successes
C3_Witness ==
    /\ SimDone
    /\ n_clientes > MinClientes
    /\ Len(sent) = n_clientes
    /\ warnings # <<>> /\ resultados # <<>>

\* the widget named name among ws (the first, when there are several)
WidgetOf(ws, name) == ws[CHOOSE k \in 1..Len(ws) : ws[k].w = name /\ \A j \in 1..(k - 1) : ws[j].w # name]

\* the response lacks what the individual evaluation reads, or the call failed
EvalFailure(r) ==
    \/ r.status \in {"raise", "nonjson"}
    \/ r.score_ml.t # "num"
    \/ ~Has(r.decision, "decision")
    \/ ~Has(r.decision, "justificacion")

\* C2: in individual evaluation every failure of the remote call or of reading its
\* result (network error, non-JSON or malformed response, missing 'score_ml',
\* 'decision', 'decision.decision' or 'justificacion') shows exactly one inline
\* error, no exception leaves main(), and the other two tabs are rendered.
C2_EvalFailureIsOneInlineError ==
    (EvalDone /\ EvalFailure(reply)) =>
      /\ Count(shown, "error") = 1
      /\ ~escaped
      /\ tabs = AllTabs
      /\ cartera = PortfolioTab(w)

\* the call itself raised, and the page is complete
C2_Witness ==
    /\ EvalDone
    /\ reply.status = "raise"
    /\ Names(shown) = <<"error">>
    /\ tabs = AllTabs

\* a response of the documented shape
WellFormed(r) ==
    /\ r.status = "json"
    /\ r.score_ml.t = "num"
    /\ Has(r.decision, "decision")
    /\ Has(r.decision, "justificacion")

\* C4: for a well-formed response the displayed fields are the response's:
\* Score ML is score_ml to the nearest thousandth, the decision text is
\* decision.decision, Score Final is decision.score_final, the justification is
\* decision.justificacion, and no error is shown.
C4_DisplayedFieldsMatchResponse ==
    (EvalDone /\ WellFormed(reply)) =>
      /\ Count(shown, "error") = 0
      /\ Count(shown, "Score ML") = 1
      /\ WidgetOf(shown, "Score ML").v.t = "fmt3"
      /\ 10 * WidgetOf(shown, "Score ML").v.n - reply.score_ml.n \in -5..5
      /\ Count(shown, "decision") = 1
      /\ WidgetOf(shown, "decision").v = reply.decision.f["decision"]
      /\ Count(shown, "Score Final") = 1
      /\ Has(reply.decision, "score_final") =>
            WidgetOf(shown, "Score Final").v = reply.decision.f["score_final"]
      /\ Count(shown, "justificacion") = 1
      /\ WidgetOf(shown, "justificacion").v = reply.decision.f["justificacion"]

\* a complete response whose score needs rounding up
C4_Witness ==
    /\ EvalDone /\ WellFormed(reply)
    /\ reply.score_ml = Num(7236)
    /\ Has(reply.decision, "score_final")
    /\ Has(reply.decision, "recomendaciones")
    /\ Len(shown) = 6

PayloadInRange(p) ==
    /\ p.cliente.edad \in EdadMin..EdadMax
    /\ p.cliente.ingresos >= 0
    /\ p.cliente.estabilidad_laboral >= 0
    /\ p.cliente.ratio_deuda_ingreso \in 0..RatioMax
    /\ p.salud_cartera.capital_disponible >= 0
    /\ p.salud_cartera.tasa_mora_actual \in 0..2000
    /\ p.salud_cartera.tasa_mora_actual * 100 = w.tasa_slider * 1000
    /\ p.salud_cartera.objetivo_mensual_desembolso >= 0

\* C5: every payload sent, in either mode, carries an applicant within the data
\* model's ranges (age 18..80, income >= 0, job stability >= 0, debt ratio 0..1)
\* and a portfolio within its ranges (capital >= 0, default rate 0..0.20 equal to
\* the slider's percent / 100, monthly target >= 0).
C5_PayloadsWithinRanges ==
    \A k \in 1..Len(sent) : PayloadInRange(sent[k])

\* a simulation sent an applicant whose drawn age was clipped up to 18, with the
\* default-rate slider at its maximum
C5_Witness ==
    /\ InSim
    /\ w.tasa_slider = TasaSliderMax
    /\ \E k \in 1..Len(sent) :
          /\ sent[k].cliente.edad = ClipLo
          /\ sent[k].salud_cartera.tasa_mora_actual = 2000

\* C8: the decision label is green if and only if decision.decision is exactly
\* 'APROBADO'; any other value is red.
C8_GreenIffAprobado ==
    (EvalDone /\ Count(shown, "decision") > 0) =>
      /\ WidgetOf(shown, "decision").color \in {"green", "red"}
      /\ WidgetOf(shown, "decision").color = "green"
            <=> (reply.decision.f["decision"].t = "str"
                 /\ reply.decision.f["decision"].s = "APROBADO")

\* the label in another case is shown in red
C8_Witness ==
    /\ EvalDone
    /\ Count(shown, "decision") = 1
    /\ reply.decision.f["decision"] = Str("aprobado")
    /\ WidgetOf(shown, "decision").color = "red"

\* the response carries the three fields the individual evaluation cannot do
\* without, and lacks at least one of the two others
OptionalFieldMissing(r) ==
    /\ r.status = "json"
    /\ Has(r.decision, "decision")
    /\ Has(r.decision, "justificacion")
    /\ ~Has(r.decision, "score_final") \/ ~Has(r.decision, "recomendaciones")

RendersOptionalFields ==
    /\ Count(shown, "error") = 0
    /\ Count(shown, "Score Final") = 1
    /\ ~Has(reply.decision, "score_final") => WidgetOf(shown, "Score Final").v = Str("N/A")
    /\ Count(shown, "recomendaciones") = 1 <=> Has(reply.decision, "recomendaciones")
    /\ Count(shown, "recomendaciones") <= 1

\* C6 as stated: a response that has score_ml, decision.decision and
\* decision.justificacion but lacks score_final and/or recomendaciones is rendered
\* without any error, Score Final showing 'N/A' when score_final is absent and the
\* recommendations box shown if and only if 'recomendaciones' is present.
C6_AnyScoreRendersWithoutError ==
    (EvalDone /\ OptionalFieldMissing(reply) /\ reply.score_ml # Absent)
        => RendersOptionalFields

\* C6 amended: the same, for a response whose score_ml is a number.
C6_OptionalFieldsNeverFail ==
    (EvalDone /\ OptionalFieldMissing(reply) /\ reply.score_ml.t = "num")
        => RendersOptionalFields

\* both optional fields are missing and the result is rendered in full
C6_Witness ==
    /\ EvalDone /\ OptionalFieldMissing(reply) /\ reply.score_ml.t = "num"
    /\ ~Has(reply.decision, "score_final")
    /\ ~Has(reply.decision, "recomendaciones")
    /\ Names(shown) = <<"Score ML", "decision", "Score Final", "subheader", "justificacion">>
    /\ WidgetOf(shown, "Score Final").v = Str("N/A")

\* the order in which the result's widgets are emitted
RenderOrder == <<"Score ML", "decision", "Score Final", "justificacion", "recomendaciones">>

IsResultWidget(name) == name \in {RenderOrder[k] : k \in 1..Len(RenderOrder)}

\* widgets in the fixed order, and after an error nothing more
PrefixThenError ==
    LET ns == Names(shown) IN
    /\ Count(shown, "error") <= 1
    /\ \A k \in 1..Len(ns) : ns[k] = "error" => k = Len(ns)
    /\ IsPrefix(SelectSeq(ns, IsResultWidget), RenderOrder)
    /\ \A k \in 1..Len(ns) : ns[k] = "subheader" => (k > 1 /\ ns[k - 1] = "Score Final")

\* C10 as stated: the widgets shown are a prefix of Score ML, decision label,
\* Score Final, justification, recommendations, followed on failure by one error
\* and nothing else; a response with score_ml but without 'decision' shows the
\* Score ML metric and then the error.
C10_ScoreShownBeforeError ==
    EvalDone =>
      /\ PrefixThenError
      /\ (reply.status = "json" /\ reply.score_ml # Absent /\ reply.decision.t = "absent")
            => Names(shown) = <<"Score ML", "error">>

\* C10 amended: the same, the last sentence for a response whose score_ml is a
\* number.
C10_PartialRenderThenError ==
    EvalDone =>
      /\ PrefixThenError
      /\ (reply.status = "json" /\ reply.score_ml.t = "num" /\ reply.decision.t = "absent")
            => Names(shown) = <<"Score ML", "error">>

\* three widgets and the heading were shown before the missing justification
\* ended the rendering
C10_Witness ==
    /\ EvalDone
    /\ Names(shown) = <<"Score ML", "decision", "Score Final", "subheader", "error">>
    /\ ~Has(reply.decision, "justificacion")

AggregateOrder == <<"Aprobados", "Score Promedio", "Total Evaluados", "histogram", "dataframe">>

\* metrics, histogram and table are all on the page
AggregateComplete == Names(agg) = AggregateOrder

\* C7: after a simulation run rows plus warnings equal n_clientes, a failed item
\* leaves no row, the aggregate (metrics, histogram, table) is rendered if and
\* only if at least one item succeeded, 'Total Evaluados' is the number of
\* successful items and 0 <= Aprobados <= Total Evaluados, Aprobados counting the
\* rows whose decision is exactly 'APROBADO'.
C7_AggregateIffAnySuccess ==
    SimDone =>
      /\ Len(resultados) + Len(warnings) = n_clientes
      /\ RowIds \cap WarningIds = {}
      /\ AggregateComplete <=> resultados # <<>>
      /\ resultados = <<>> => agg = <<>>
      /\ AggregateComplete =>
            /\ WidgetOf(agg, "Total Evaluados").v = Num(Len(resultados))
            /\ WidgetOf(agg, "Aprobados").v.n \in 0..Len(resultados)
            /\ WidgetOf(agg, "Aprobados").v.n =
                  Cardinality({k \in 1..Len(resultados) :
                                  resultados[k].decision = Str("APROBADO")})

\* C9: the applicants of a simulation do not depend on the remote outcomes: item
\* k of a run is item k of the run before it, whatever failed in either, so that
\* the shorter run's applicants are a prefix of the longer run's, and every call
\* of one run carries the same portfolio record.
C9_ApplicantsRepeatAcrossRuns ==
    InSim =>
      /\ \A k \in 1..Len(sent) :
            /\ k <= Len(lastSim) => sent[k].cliente = lastSim[k]
            /\ sent[k].salud_cartera = sent[1].salud_cartera
      /\ pc = "idle" => lastSim = Clientes(sent)

\* a run longer than the one before it has issued its last call, after failures
C9_Witness ==
    /\ InSim /\ pc = "sim"
    /\ Len(lastSim) = MinClientes
    /\ Len(sent) > Len(lastSim)
    /\ warnings # <<>> /\ resultados # <<>>
    /\ \A k \in 1..Len(lastSim) : sent[k].cliente = lastSim[k]

====
